---- MODULE Spec2Model ----
(***************************************************************************)
(* A model of algo-vanity-rs (src/src/main.rs, src/src/tui.rs): N worker   *)
(* threads generate candidate accounts and send match / count events to    *)
(* the main-loop thread (the Aggregator), which counts them, forwards      *)
(* accepted matches to the file-handler thread (Persistence) and statistics*)
(* to the info-printer thread (the status thread).  One AtomicBool,        *)
(* keep_alive, is the shared lifecycle flag.                               *)
(*                                                                         *)
(* Strings are sequences of one-character strings.  Rust panics            *)
(* (.expect on an Err) end the panicking thread and drop what it owns.     *)
(*                                                                         *)
(* Spec is the whole program.  Four more specifications follow one part    *)
(* of it closely, over the same variables: SpecMatcher (find_vanity on one *)
(* candidate), SpecRate (the main loop's statistics over many count        *)
(* events), SpecCycle (a worker through the seed loops of a reseed cycle)  *)
(* and SpecAfterRemoval (the program from a once-mode removal on).         *)
(***************************************************************************)
EXTENDS Integers, Sequences, FiniteSets, TLC

(***************************************************************************)
(* Bounds of the model.                                                    *)
(***************************************************************************)
\* The events the workers may cause in one run, all workers together:
\* reseed cycles started plus candidates found to match.  A reseed cycle
\* checks COUNT_PER_LOOP * COUNT_PER_LOOP candidates; a check that matches
\* nothing sends nothing and is a stuttering step here, so a cycle is any
\* number of matching checks followed by its count event.
MaxEvents == 3

\* The count events fed to the main loop when its smoothing is followed on
\* its own.
MaxSamples == 200

\* The reseed cycles a worker starts when it is followed through its seed
\* loops, and the checks of a cycle through which the seeds passed so far
\* are kept to compare the next one with.
MaxCycles == 1

MaxPassed == 300

(***************************************************************************)
(* Program constants.                                                      *)
(***************************************************************************)
COUNT_PER_LOOP == 100

\* The addresses the key provider may derive, and the vanity patterns the
\* command line may name (both over the address alphabet).
Addresses == { <<"A", "B", "A">>, <<"B", "A", "A">> }

Patterns == { <<"A">>, <<"B">> }

\* SearchPlacement after defaulting: at least one flag is set.
StartOnly == [start |-> TRUE, anywhere |-> FALSE, end |-> FALSE]

Everywhere == [start |-> TRUE, anywhere |-> TRUE, end |-> TRUE]

\* Durations of a reseed cycle, in whole seconds: 10 s for the 10,000
\* candidates of a cycle is an instantaneous rate of 1000 a second.
Durations == { 10 }

\* The values of --threads (0 is accepted by main).
ThreadCounts == 0 .. 2

VARIABLES
  num_threads,      \* --threads
  find_only_once,   \* --once
  placement,        \* SearchPlacement
  vanities,         \* args.vanities, cloned into every worker
  keep_alive,       \* the AtomicBool
  worker_pc,        \* per worker: "head" | "loop" | "done"
  events,           \* reseed cycles started and matching candidates so far
  rx_worker_msg,    \* channel workers -> main loop
  main_pc,          \* "head" | "recv" | "done" | "panicked"
  vanity_targets,   \* the main loop's mutable target list
  total_count,
  match_count,
  search_rate,
  rates,
  rx_printer_msg,   \* channel main loop -> info printer
  printer_pc,       \* "head" | "done"
  shown,            \* the info printer's search_rate, total_count, match_count
  rx_address_match, \* channel main loop -> file handler
  file_pc,          \* "load" | "recv" | "done" | "panic_parse" | "panic_write"
  matches,          \* the file handler's in-memory Vec<AddressMatch>
  file,             \* the record file at the save path
  file_at_start,    \* the record file as the run found it
  forwarded,        \* every AddressMatch tx_address_match.send accepted
  acc_string,       \* find_vanity: the candidate's encoded address
  seed,             \* thread_worker: the 32 seed bytes of the reseed cycle
  index0,           \* thread_worker: the byte the outer loop counts up
  index1,           \* thread_worker: the byte the inner loop counts up
  outer,            \* passes of the outer for loop begun in this cycle
  inner,            \* passes of the inner for loop begun in this outer pass
  checked,          \* seeds handed to Account::from_seed in this cycle
  passed            \* those seeds, kept through the first MaxPassed checks

vars ==
  << num_threads, find_only_once, placement, vanities, keep_alive, worker_pc,
     events, rx_worker_msg, main_pc, vanity_targets, total_count,
     match_count, search_rate, rates, rx_printer_msg, printer_pc, shown,
     rx_address_match, file_pc, matches, file, file_at_start, forwarded,
     acc_string, seed, index0, index1, outer, inner, checked, passed >>

Workers == 0 .. (num_threads - 1)

(***************************************************************************)
(* Strings.                                                                *)
(***************************************************************************)
\* str::starts_with
StartsWith(s, t) ==
  /\ Len(t) <= Len(s)
  /\ SubSeq(s, 1, Len(t)) = t

\* str::ends_with
EndsWith(s, t) ==
  /\ Len(t) <= Len(s)
  /\ SubSeq(s, Len(s) - Len(t) + 1, Len(s)) = t

\* the 0-based offsets at which t occurs in s
Occurrences(s, t) ==
  { i \in 0 .. (Len(s) - Len(t)) : SubSeq(s, i + 1, i + Len(t)) = t }

\* str::rfind in its place: the highest offset
FindLast(s, t) ==
  IF Occurrences(s, t) = {}
    THEN <<"None">>
    ELSE <<"Some", CHOOSE i \in Occurrences(s, t) :
                     \A j \in Occurrences(s, t) : j <= i>>

\* str::find: <<"Some", lowest offset>> or <<"None">>
Find(s, t) ==
  IF Occurrences(s, t) = {}
    THEN <<"None">>
    ELSE <<"Some", CHOOSE i \in Occurrences(s, t) :
                     \A j \in Occurrences(s, t) : i <= j>>

(***************************************************************************)
(* Accounts and matches.                                                   *)
(***************************************************************************)
\* Account::from_seed: the key provider is opaque; an account is its address
\* and the mnemonic that recovers it.
Account(a) == [address |-> a, mnemonic |-> <<"mnemonic of">> \o a]

AddressMatch(t, acc, p) ==
  [target |-> t, public |-> acc.address, mnemonic |-> acc.mnemonic, placement |-> p]

\* a loop body that searches anywhere without looking at matched_start_end
FindVanityTargetUnguarded(t, acc, pl) ==
  LET s == acc.address
      atStart == pl.start /\ StartsWith(s, t)
      atEnd == pl.end /\ EndsWith(s, t)
      found == Find(s, t)
  IN  (IF atStart THEN << <<"AddressMatch", AddressMatch(t, acc, <<"Start">>)>> >> ELSE <<>>)
      \o (IF atEnd THEN << <<"AddressMatch", AddressMatch(t, acc, <<"End">>)>> >> ELSE <<>>)
      \o (IF pl.anywhere /\ found[1] = "Some"
            THEN << <<"AddressMatch", AddressMatch(t, acc, <<"Anywhere", found[2]>>)>> >>
            ELSE <<>>)

\* The body of find_vanity's loop for one target: the events sent, in order.
FindVanityTarget(t, acc, pl) ==
  LET s == acc.address
      atStart == pl.start /\ StartsWith(s, t)
      atEnd == pl.end /\ EndsWith(s, t)
      matched_start_end == atStart \/ atEnd
      found == Find(s, t)
  IN  (IF atStart THEN << <<"AddressMatch", AddressMatch(t, acc, <<"Start">>)>> >> ELSE <<>>)
      \o (IF atEnd THEN << <<"AddressMatch", AddressMatch(t, acc, <<"End">>)>> >> ELSE <<>>)
      \o (IF ~matched_start_end /\ pl.anywhere /\ found[1] = "Some"
            THEN << <<"AddressMatch", AddressMatch(t, acc, <<"Anywhere", found[2]>>)>> >>
            ELSE <<>>)

RECURSIVE FindVanity(_, _, _)
FindVanity(targets, acc, pl) ==
  IF targets = <<>>
    THEN <<>>
    ELSE FindVanityTarget(Head(targets), acc, pl) \o FindVanity(Tail(targets), acc, pl)

(***************************************************************************)
(* The record file.  A JSON value is <<"str", s>>, <<"num", n>>,            *)
(* <<"arr", elements>> or <<"obj", <<key, value>> pairs>>; white space      *)
(* (compact or pretty) is not part of the value.  The file is               *)
(* [state |-> "absent" | "garbage" | "json", doc |-> the value].            *)
(***************************************************************************)
JStr(s) == <<"str", s>>

JNum(n) == <<"num", n>>

AbsentFile == [state |-> "absent", doc |-> <<"none">>]

\* bytes that are no JSON document (also a file cut short by a failed write)
GarbageFile == [state |-> "garbage", doc |-> <<"none">>]

JsonFile(doc) == [state |-> "json", doc |-> doc]

\* #[derive(Serialize)] enum Placement: a unit variant is its name, a newtype
\* variant is {"name": value}
PlacementToJson(p) ==
  IF p[1] = "Anywhere"
    THEN <<"obj", << <<"Anywhere", JNum(p[2])>> >> >>
    ELSE JStr(p[1])

\* #[derive(Serialize)] struct AddressMatch: its fields in declaration order
MatchToJson(m) ==
  <<"obj", << <<"target", JStr(m.target)>>,
              <<"public", JStr(m.public)>>,
              <<"mnemonic", JStr(m.mnemonic)>>,
              <<"placement", PlacementToJson(m.placement)>> >> >>

\* serde_json::to_string_pretty(&matches) / to_writer(&file, &[0;0])
ToJson(ms) == <<"arr", [i \in 1 .. Len(ms) |-> MatchToJson(ms[i])]>>

KeyIndexes(pairs, key) == { i \in 1 .. Len(pairs) : pairs[i][1] = key }

GetField(pairs, key) == pairs[CHOOSE i \in KeyIndexes(pairs, key) : TRUE][2]

PlacementJsonOk(v) ==
  \/ v[1] = "str" /\ v[2] \in {"Start", "End"}
  \/ v[1] = "obj" /\ Len(v[2]) = 1 /\ v[2][1][1] = "Anywhere" /\ v[2][1][2][1] = "num"

\* #[derive(Deserialize)] enum Placement
PlacementFromJson(v) ==
  IF v[1] = "str" THEN <<v[2]>> ELSE <<"Anywhere", v[2][1][2][2]>>

MatchJsonOk(v) ==
  /\ v[1] = "obj"
  /\ \A k \in {"target", "public", "mnemonic", "placement"} :
       Cardinality(KeyIndexes(v[2], k)) = 1
  /\ \A k \in {"target", "public", "mnemonic"} : GetField(v[2], k)[1] = "str"
  /\ PlacementJsonOk(GetField(v[2], "placement"))

\* #[derive(Deserialize)] struct AddressMatch
MatchFromJson(v) ==
  [target |-> GetField(v[2], "target")[2],
   public |-> GetField(v[2], "public")[2],
   mnemonic |-> GetField(v[2], "mnemonic")[2],
   placement |-> PlacementFromJson(GetField(v[2], "placement"))]

\* serde_json::from_reader::<_, Vec<AddressMatch>>: <<"Ok", records>> or <<"Err">>
FromReader(f) ==
  IF /\ f.state = "json"
     /\ f.doc[1] = "arr"
     /\ \A i \in 1 .. Len(f.doc[2]) : MatchJsonOk(f.doc[2][i])
    THEN <<"Ok", [i \in 1 .. Len(f.doc[2]) |-> MatchFromJson(f.doc[2][i])]>>
    ELSE <<"Err">>

\* a record an earlier run saved
SavedMatch == AddressMatch(<<"B">>, Account(<<"A", "A", "B">>), <<"End">>)

\* the record array an earlier run left at the save path
SavedFile == JsonFile(ToJson(<<SavedMatch>>))

\* The runs considered: --once, the placement flags, args.vanities after
\* upper-casing and validation (main removes no duplicate, and a pattern file
\* may hold []), and what the save path holds when the run starts.
Run(once, pl, targets, f) ==
  [once |-> once, placement |-> pl, vanities |-> targets, file |-> f]

Runs ==
  { Run(TRUE, StartOnly, << <<"A">> >>, AbsentFile),
    Run(TRUE, Everywhere, << <<"A">>, <<"B">> >>, SavedFile),
    Run(TRUE, StartOnly, << <<"A">>, <<"A">> >>, AbsentFile),
    Run(TRUE, StartOnly, <<>>, AbsentFile),
    Run(TRUE, StartOnly, << <<"A">> >>, GarbageFile),
    Run(FALSE, Everywhere, << <<"A">> >>, SavedFile),
    Run(FALSE, StartOnly, << <<"A">>, <<"B">> >>, GarbageFile),
    Run(FALSE, StartOnly, << <<"B">> >>, AbsentFile) }

(***************************************************************************)
(* Threads that are alive keep their channel ends; a thread that returned  *)
(* or panicked has dropped them.  main keeps the original tx_worker_msg    *)
(* until it returns, which is after it joined every thread, so the worker  *)
(* channel never reports a disconnect to rx_worker_msg.recv().             *)
(***************************************************************************)
MainLoopAlive == main_pc \in {"head", "recv"}

PrinterAlive == printer_pc = "head"

FileHandlerAlive == file_pc \in {"load", "recv"}

\* tx_worker_msg.send with its result discarded (`_ = ...`): the events are
\* queued while the receiver exists and lost once it is dropped
SendToMain(queue, msgs) == IF MainLoopAlive THEN queue \o msgs ELSE queue

(***************************************************************************)
(* Statistics.  An f32 rate is kept as a whole number of hundred-          *)
(* thousandths of an address per second (an f32 near 1000 resolves 6e-5).  *)
(***************************************************************************)
\* (COUNT_PER_LOOP * COUNT_PER_LOOP) as f32 / duration.as_secs_f32()
InstRate(d) == (COUNT_PER_LOOP * COUNT_PER_LOOP * 100000) \div d

RECURSIVE SumRates(_, _)
\* rates.iter().sum::<f32>() over the first n workers
SumRates(r, n) == IF n = 0 THEN 0 ELSE r[n - 1] + SumRates(r, n - 1)

\* a filter with the weights 0.9 and 0.1
LowPassTenth(rate, sum) == (rate * 9 + sum) \div 10

\* search_rate*0.95 + sum*0.05
LowPass(rate, sum) == (rate * 19 + sum) \div 20

\* The threads as main spawns them.  The whole program (Spec) follows no
\* single candidate and no single seed: there a reseed cycle is one position
\* of the worker, and the variables of find_vanity and of the seed loops rest.
Started ==
  /\ keep_alive = TRUE
  /\ worker_pc = [w \in Workers |-> "head"]
  /\ events = 0
  /\ rx_worker_msg = <<>>
  /\ main_pc = "head"
  /\ vanity_targets = vanities
  /\ total_count = 0
  /\ match_count = 0
  /\ search_rate = 0
  /\ rates = [w \in Workers |-> 0]
  /\ rx_printer_msg = <<>>
  /\ printer_pc = "head"
  /\ shown = [search_rate |-> 0, total_count |-> 0, match_count |-> 0]
  /\ rx_address_match = <<>>
  /\ file_pc = "load"
  /\ matches = <<>>
  /\ file_at_start = file
  /\ forwarded = <<>>
  /\ acc_string = <<>>
  /\ seed = <<>>
  /\ index0 = 0
  /\ index1 = 0
  /\ outer = 0
  /\ inner = 0
  /\ checked = 0
  /\ passed = {}

Init ==
  /\ num_threads \in ThreadCounts
  /\ \E r \in Runs :
       /\ find_only_once = r.once
       /\ placement = r.placement
       /\ vanities = r.vanities
       /\ file = r.file
  /\ Started

config == << num_threads, find_only_once, placement, vanities, file_at_start >>

workerVars == << worker_pc, events >>

mainVars ==
  << main_pc, vanity_targets, total_count, match_count, search_rate, rates, forwarded >>

printerVars == << printer_pc, shown >>

fileVars == << file_pc, matches, file >>

\* the locals of the worker's seed loops
cycleVars == << seed, index0, index1, outer, inner, checked, passed >>

\* the locals of find_vanity and of the worker's seed loops
unitVars == << acc_string, cycleVars >>

(***************************************************************************)
(* thread_worker                                                           *)
(***************************************************************************)
\* while keep_alive.load(..): start the next reseed cycle, or return
WorkerHead(w) ==
  /\ worker_pc[w] = "head"
  /\ IF keep_alive
       THEN /\ events < MaxEvents
            /\ worker_pc' = [worker_pc EXCEPT ![w] = "loop"]
            /\ events' = events + 1
       ELSE /\ worker_pc' = [worker_pc EXCEPT ![w] = "done"]
            /\ UNCHANGED events
  /\ UNCHANGED << config, unitVars, keep_alive, rx_worker_msg, mainVars, rx_printer_msg,
                  printerVars, rx_address_match, fileVars >>

\* a pass of the inner for loop whose candidate matches: derive the account,
\* find_vanity sends its events
WorkerCheck(w) ==
  /\ worker_pc[w] = "loop"
  /\ events < MaxEvents
  /\ \E a \in Addresses :
       /\ FindVanity(vanities, Account(a), placement) # <<>>
       /\ rx_worker_msg' =
            SendToMain(rx_worker_msg, FindVanity(vanities, Account(a), placement))
  /\ events' = events + 1
  /\ UNCHANGED << config, unitVars, keep_alive, worker_pc, mainVars, rx_printer_msg,
                  printerVars, rx_address_match, fileVars >>

\* a worker that adds its cycle to the total itself and sends nothing
WorkerCountWritingTotal(w) ==
  /\ worker_pc[w] = "loop"
  /\ total_count' = total_count + COUNT_PER_LOOP * COUNT_PER_LOOP
  /\ worker_pc' = [worker_pc EXCEPT ![w] = "head"]
  /\ UNCHANGED << config, unitVars, keep_alive, events, rx_worker_msg, main_pc,
                  vanity_targets, match_count, search_rate, rates, forwarded,
                  rx_printer_msg, printerVars, rx_address_match, fileVars >>

\* the Count send on a mpsc::sync_channel(1): the worker waits while the one
\* slot is taken and the receiver exists
WorkerCountSyncChannel(w) ==
  /\ worker_pc[w] = "loop"
  /\ MainLoopAlive => Len(rx_worker_msg) < 1
  /\ \E d \in Durations :
       rx_worker_msg' = SendToMain(rx_worker_msg, << <<"Count", w, d>> >>)
  /\ worker_pc' = [worker_pc EXCEPT ![w] = "head"]
  /\ UNCHANGED << config, unitVars, keep_alive, events, mainVars, rx_printer_msg,
                  printerVars, rx_address_match, fileVars >>

\* after the loops: send WorkerMsg::Count((thread_id, duration))
WorkerCount(w) ==
  /\ worker_pc[w] = "loop"
  /\ \E d \in Durations :
       rx_worker_msg' = SendToMain(rx_worker_msg, << <<"Count", w, d>> >>)
  /\ worker_pc' = [worker_pc EXCEPT ![w] = "head"]
  /\ UNCHANGED << config, unitVars, keep_alive, events, mainVars, rx_printer_msg,
                  printerVars, rx_address_match, fileVars >>

(***************************************************************************)
(* thread_main_loop                                                        *)
(***************************************************************************)
\* vanity_targets.iter().position(|r| r == &target): the lowest 1-based index,
\* 0 for None
Position(targets, t) ==
  IF \E i \in 1 .. Len(targets) : targets[i] = t
    THEN CHOOSE i \in 1 .. Len(targets) :
           /\ targets[i] = t
           /\ \A j \in 1 .. (i - 1) : targets[j] # t
    ELSE 0

\* Vec::pop in its place: the last entry goes, whichever matched
RemoveLast(targets, i) == SubSeq(targets, 1, Len(targets) - 1)

\* Vec::remove(index), 1-based
RemoveAt(targets, i) == SubSeq(targets, 1, i - 1) \o SubSeq(targets, i + 1, Len(targets))

\* transmit_match: count, then send to the file handler, then to the printer;
\* either .expect panics when the receiving thread is gone
TransmitMatch(m) ==
  [ok |-> FileHandlerAlive /\ PrinterAlive,
   match_count |-> match_count + 1,
   rx_address_match |->
     IF FileHandlerAlive THEN Append(rx_address_match, m) ELSE rx_address_match,
   forwarded |-> IF FileHandlerAlive THEN Append(forwarded, m) ELSE forwarded,
   rx_printer_msg |->
     IF FileHandlerAlive /\ PrinterAlive
       THEN Append(rx_printer_msg, <<"MatchCount", match_count + 1>>)
       ELSE rx_printer_msg]

\* a main loop that removes the target and never stores to the flag
KeepAliveNeverStored(flag, remaining) == flag

\* a main loop that stores !vanity_targets.is_empty() after every removal
KeepAliveStoredEachTime(flag, remaining) == remaining # <<>>

\* if vanity_targets.is_empty() { keep_alive.store(false, ..) }
KeepAliveAfterRemove(flag, remaining) == IF remaining = <<>> THEN FALSE ELSE flag

\* while keep_alive.load(..): block in recv(), or return
MainHead ==
  /\ main_pc = "head"
  /\ main_pc' = IF keep_alive THEN "recv" ELSE "done"
  /\ UNCHANGED << config, unitVars, keep_alive, workerVars, rx_worker_msg, vanity_targets,
                  total_count, match_count, search_rate, rates, forwarded,
                  rx_printer_msg, printerVars, rx_address_match, fileVars >>

\* recv() returned WorkerMsg::AddressMatch
MainRecvMatch ==
  /\ main_pc = "recv"
  /\ rx_worker_msg # <<>>
  /\ Head(rx_worker_msg)[1] = "AddressMatch"
  /\ LET m == Head(rx_worker_msg)[2]
         index == Position(vanity_targets, m.target)
         sent == TransmitMatch(m)
     IN  /\ rx_worker_msg' = Tail(rx_worker_msg)
         /\ IF find_only_once /\ index = 0
              THEN /\ main_pc' = "head"
                   /\ UNCHANGED << keep_alive, vanity_targets, match_count, forwarded,
                                   rx_address_match, rx_printer_msg >>
              ELSE /\ match_count' = sent.match_count
                   /\ rx_address_match' = sent.rx_address_match
                   /\ forwarded' = sent.forwarded
                   /\ rx_printer_msg' = sent.rx_printer_msg
                   /\ IF ~sent.ok
                        THEN /\ main_pc' = "panicked"
                             /\ UNCHANGED << keep_alive, vanity_targets >>
                        ELSE /\ main_pc' = "head"
                             /\ IF find_only_once
                                  THEN /\ vanity_targets' = RemoveAt(vanity_targets, index)
                                       /\ keep_alive' =
                                            KeepAliveAfterRemove(keep_alive, vanity_targets')
                                  ELSE UNCHANGED << keep_alive, vanity_targets >>
  /\ UNCHANGED << config, unitVars, workerVars, total_count, search_rate, rates, printerVars,
                  fileVars >>

\* a main loop that adds one loop's worth for a count event
CountedPerEventOneLoop == COUNT_PER_LOOP

\* total_count += COUNT_PER_LOOP*COUNT_PER_LOOP: what one count event adds
CountedPerEvent == COUNT_PER_LOOP * COUNT_PER_LOOP

\* recv() returned WorkerMsg::Count((id, duration)); total_count is a usize
\* and stays far below its width within MaxEvents
MainRecvCount ==
  /\ main_pc = "recv"
  /\ rx_worker_msg # <<>>
  /\ Head(rx_worker_msg)[1] = "Count"
  /\ LET id == Head(rx_worker_msg)[2]
         duration == Head(rx_worker_msg)[3]
     IN  /\ rx_worker_msg' = Tail(rx_worker_msg)
         /\ total_count' = total_count + CountedPerEvent
         /\ rates' = [rates EXCEPT ![id] = InstRate(duration)]
         /\ search_rate' = LowPass(search_rate, SumRates(rates', num_threads))
         /\ IF PrinterAlive
              THEN /\ rx_printer_msg' = rx_printer_msg \o
                        << <<"SearchRate", search_rate'>>, <<"TotalCount", total_count'>> >>
                   /\ main_pc' = "head"
              ELSE /\ main_pc' = "panicked"
                   /\ UNCHANGED rx_printer_msg
  /\ UNCHANGED << config, unitVars, keep_alive, workerVars, vanity_targets, match_count, forwarded,
                  printerVars, rx_address_match, fileVars >>

(***************************************************************************)
(* thread_info_printer                                                     *)
(***************************************************************************)
\* the value of the last message of a kind in the queue, else the old value
Latest(queue, kind, old) ==
  LET at == { i \in 1 .. Len(queue) : queue[i][1] = kind }
  IN  IF at = {} THEN old
      ELSE queue[CHOOSE i \in at : \A j \in at : j <= i][2]

\* one pass of the loop: take every queued message, print, sleep
PrinterLoop ==
  /\ printer_pc = "head"
  /\ keep_alive
  /\ shown' = [search_rate |-> Latest(rx_printer_msg, "SearchRate", shown.search_rate),
               total_count |-> Latest(rx_printer_msg, "TotalCount", shown.total_count),
               match_count |-> Latest(rx_printer_msg, "MatchCount", shown.match_count)]
  /\ rx_printer_msg' = <<>>
  /\ UNCHANGED << config, unitVars, keep_alive, workerVars, rx_worker_msg, mainVars, printer_pc,
                  rx_address_match, fileVars >>

\* the loop condition fails: return, dropping rx_printer_msg
PrinterExit ==
  /\ printer_pc = "head"
  /\ ~keep_alive
  /\ printer_pc' = "done"
  /\ UNCHANGED << config, unitVars, keep_alive, workerVars, rx_worker_msg, mainVars, rx_printer_msg,
                  shown, rx_address_match, fileVars >>

(***************************************************************************)
(* thread_file_handler                                                     *)
(***************************************************************************)
\* load the existing record file or create a new one
FileLoad ==
  /\ file_pc = "load"
  /\ IF file.state = "absent"
       THEN /\ file' = JsonFile(ToJson(<<>>))
            /\ matches' = <<>>
            /\ file_pc' = "recv"
       ELSE IF FromReader(file)[1] = "Ok"
              THEN /\ matches' = FromReader(file)[2]
                   /\ file_pc' = "recv"
                   /\ UNCHANGED file
              ELSE /\ file_pc' = "panic_parse"
                   /\ UNCHANGED << file, matches >>
  /\ UNCHANGED << config, unitVars, keep_alive, workerVars, rx_worker_msg, mainVars, rx_printer_msg,
                  printerVars, rx_address_match >>

\* a file handler that pushes the received match and loses the queued ones
PushFirst(list, queue) == Append(list, Head(queue))

\* matches.push(message); matches.append(&mut rx_address_match.try_iter().collect())
PushAll(list, queue) == list \o queue

\* recv() returned a match: push it and every match already queued, then
\* rewrite the whole file; when write! fails the file is left cut short and
\* the .expect panics
FileRecv ==
  /\ file_pc = "recv"
  /\ rx_address_match # <<>>
  /\ matches' = PushAll(matches, rx_address_match)
  /\ rx_address_match' = <<>>
  /\ \E written \in BOOLEAN :
       /\ file' = IF written THEN JsonFile(ToJson(matches')) ELSE GarbageFile
       /\ file_pc' = IF written THEN "recv" ELSE "panic_write"
  /\ UNCHANGED << config, unitVars, keep_alive, workerVars, rx_worker_msg, mainVars, rx_printer_msg,
                  printerVars >>

\* recv() returned Err: the queue is empty and tx_address_match is dropped
FileExit ==
  /\ file_pc = "recv"
  /\ rx_address_match = <<>>
  /\ ~MainLoopAlive
  /\ file_pc' = "done"
  /\ UNCHANGED << config, unitVars, keep_alive, workerVars, rx_worker_msg, mainVars, rx_printer_msg,
                  printerVars, rx_address_match, matches, file >>

(***************************************************************************)
(* The ways the flag is cleared from outside the engine.                   *)
(***************************************************************************)
\* the ctrlc handler
Interrupt ==
  /\ keep_alive
  /\ keep_alive' = FALSE
  /\ UNCHANGED << config, unitVars, workerVars, rx_worker_msg, mainVars, rx_printer_msg,
                  printerVars, rx_address_match, fileVars >>

\* tui::handle_events on a press of 'q': the status view's only write to the
\* engine is this store (main.rs does not start tui::main, so it is no
\* thread that main joins)
TuiQuit ==
  /\ keep_alive
  /\ keep_alive' = FALSE
  /\ UNCHANGED << config, unitVars, workerVars, rx_worker_msg, mainVars, rx_printer_msg,
                  printerVars, rx_address_match, fileVars >>

Next ==
  \/ \E w \in Workers : WorkerHead(w)
  \/ \E w \in Workers : WorkerCheck(w)
  \/ \E w \in Workers : WorkerCount(w)
  \/ MainHead
  \/ MainRecvMatch
  \/ MainRecvCount
  \/ PrinterLoop
  \/ PrinterExit
  \/ FileLoad
  \/ FileRecv
  \/ FileExit
  \/ Interrupt
  \/ TuiQuit

Spec == Init /\ [][Next]_vars

(***************************************************************************)
(* find_vanity on its own: one candidate against a target list under a     *)
(* placement, whatever the three are.                                      *)
(***************************************************************************)
\* every SearchPlacement main can build: after defaulting a flag is set
Placements ==
  { pl \in [start : BOOLEAN, anywhere : BOOLEAN, end : BOOLEAN] :
      pl.start \/ pl.anywhere \/ pl.end }

\* candidate addresses: every string of three characters over two
MatcherAddresses == { <<x, y, z>> : x \in {"A", "B"}, y \in {"A", "B"}, z \in {"A", "B"} }

\* patterns shorter than, as long as and longer than a candidate
MatcherPatterns ==
  { <<"A">>, <<"B">>, <<"A", "A">>, <<"A", "B">>, <<"B", "A">>,
    <<"A", "B", "A">>, <<"A", "B", "A", "B">> }

\* args.vanities: one pattern, or two that may be the same
MatcherTargets ==
  { <<t>> : t \in MatcherPatterns }
    \cup { <<t, u>> : t \in { <<"A">>, <<"A", "B">> }, u \in { <<"A">>, <<"A", "B">> } }

InitMatcher ==
  /\ num_threads = 1
  /\ find_only_once = FALSE
  /\ placement \in Placements
  /\ vanities \in MatcherTargets
  /\ file = AbsentFile
  /\ Started

\* one call of find_vanity: encode the address, send the events of every target
MatcherCheck ==
  /\ acc_string = <<>>
  /\ \E a \in MatcherAddresses :
       /\ acc_string' = Account(a).address
       /\ rx_worker_msg' =
            SendToMain(rx_worker_msg, FindVanity(vanities, Account(a), placement))
  /\ UNCHANGED << config, keep_alive, workerVars, mainVars, rx_printer_msg, printerVars,
                  rx_address_match, fileVars, cycleVars >>

NextMatcher == MatcherCheck

SpecMatcher == InitMatcher /\ [][NextMatcher]_vars

(***************************************************************************)
(* The main loop's statistics on their own: one worker whose cycles match  *)
(* nothing and all last the same time, so that every count event carries   *)
(* the same instantaneous rate.                                            *)
(***************************************************************************)
InitRate ==
  /\ num_threads = 1
  /\ find_only_once = FALSE
  /\ placement = StartOnly
  /\ vanities = << <<"B">> >>
  /\ file = AbsentFile
  /\ Started

\* a whole reseed cycle in which no candidate matches: all it sends is
\* WorkerMsg::Count((thread_id, duration))
RateFeed(w) ==
  /\ worker_pc[w] = "head"
  /\ keep_alive
  /\ total_count \div (COUNT_PER_LOOP * COUNT_PER_LOOP) + Len(rx_worker_msg) < MaxSamples
  /\ \E d \in Durations :
       rx_worker_msg' = SendToMain(rx_worker_msg, << <<"Count", w, d>> >>)
  /\ UNCHANGED << config, unitVars, keep_alive, workerVars, mainVars, rx_printer_msg,
                  printerVars, rx_address_match, fileVars >>

NextRate ==
  \/ \E w \in Workers : RateFeed(w)
  \/ MainHead
  \/ MainRecvCount

SpecRate == InitRate /\ [][NextRate]_vars

(***************************************************************************)
(* thread_worker on its own, followed through the two for loops of a       *)
(* reseed cycle: worker_pc is "head" (the while condition), "outer" (the   *)
(* head of the outer for), "inner" (the head of the inner for) or "done".  *)
(* The flag may be cleared at any moment.                                  *)
(***************************************************************************)
\* values of rng.gen::<[u8; 32]>(): bytes far from and next to the wrap
Seeds == { [k \in 0 .. 31 |-> 0], [k \in 0 .. 31 |-> 255] }

\* values of rng.gen_range(0..32)
SeedIndexes == { 0, 31 }

\* u8::wrapping_add(1)
WrappingAdd(b) == (b + 1) % 256

\* seed[index] = seed[index].wrapping_add(1)
Bump(s, index) == [s EXCEPT ![index] = WrappingAdd(s[index])]

\* Account::from_seed: the key provider is a fixed function of the seed;
\* here few seeds give an address that starts with A
FromSeed(s) ==
  Account(IF s[0] = 3 /\ s[31] = 3 THEN <<"A", "B", "A">> ELSE <<"B", "A", "A">>)

InitCycle ==
  /\ num_threads = 1
  /\ find_only_once = FALSE
  /\ placement = StartOnly
  /\ vanities = << <<"A">> >>
  /\ file = AbsentFile
  /\ Started

\* an outer loop that also stops as soon as the flag is false
OuterContinuesWhileAlive == outer < COUNT_PER_LOOP /\ keep_alive

\* for _ in 0..COUNT_PER_LOOP (the outer loop): another pass is due
OuterContinues == outer < COUNT_PER_LOOP

\* while keep_alive.load(..): draw the seed and the two indexes, or return
CycleHead(w) ==
  /\ worker_pc[w] = "head"
  /\ IF keep_alive
       THEN /\ events < MaxCycles
            /\ seed' \in Seeds
            /\ index0' \in SeedIndexes
            /\ index1' \in SeedIndexes
            /\ outer' = 0
            /\ inner' = 0
            /\ checked' = 0
            /\ passed' = {}
            /\ worker_pc' = [worker_pc EXCEPT ![w] = "outer"]
            /\ events' = events + 1
       ELSE /\ worker_pc' = [worker_pc EXCEPT ![w] = "done"]
            /\ UNCHANGED << events, cycleVars >>
  /\ UNCHANGED << config, acc_string, keep_alive, rx_worker_msg, mainVars, rx_printer_msg,
                  printerVars, rx_address_match, fileVars >>

\* a pass of the outer loop begins: count up seed[index0]
CycleOuter(w) ==
  /\ worker_pc[w] = "outer"
  /\ OuterContinues
  /\ seed' = Bump(seed, index0)
  /\ outer' = outer + 1
  /\ inner' = 0
  /\ worker_pc' = [worker_pc EXCEPT ![w] = "inner"]
  /\ UNCHANGED << config, acc_string, index0, index1, checked, passed, keep_alive, events,
                  rx_worker_msg, mainVars, rx_printer_msg, printerVars, rx_address_match,
                  fileVars >>

\* a pass of the inner loop: count up seed[index1], derive the account, call
\* find_vanity; or the inner loop is over
CycleInner(w) ==
  /\ worker_pc[w] = "inner"
  /\ IF inner < COUNT_PER_LOOP
       THEN /\ seed' = Bump(seed, index1)
            /\ inner' = inner + 1
            /\ checked' = checked + 1
            /\ passed' = IF checked < MaxPassed THEN passed \cup {seed'} ELSE {}
            /\ rx_worker_msg' =
                 SendToMain(rx_worker_msg, FindVanity(vanities, FromSeed(seed'), placement))
            /\ UNCHANGED worker_pc
       ELSE /\ worker_pc' = [worker_pc EXCEPT ![w] = "outer"]
            /\ UNCHANGED << seed, inner, checked, passed, rx_worker_msg >>
  /\ UNCHANGED << config, acc_string, index0, index1, outer, keep_alive, events, mainVars,
                  rx_printer_msg, printerVars, rx_address_match, fileVars >>

\* the outer loop is over: send WorkerMsg::Count((thread_id, duration)); the
\* seed and the indexes go out of scope
CycleCount(w) ==
  /\ worker_pc[w] = "outer"
  /\ ~OuterContinues
  /\ \E d \in Durations :
       rx_worker_msg' = SendToMain(rx_worker_msg, << <<"Count", w, d>> >>)
  /\ worker_pc' = [worker_pc EXCEPT ![w] = "head"]
  /\ seed' = <<>>
  /\ index0' = 0
  /\ index1' = 0
  /\ outer' = 0
  /\ inner' = 0
  /\ checked' = 0
  /\ passed' = {}
  /\ UNCHANGED << config, acc_string, keep_alive, events, mainVars, rx_printer_msg,
                  printerVars, rx_address_match, fileVars >>

NextCycle ==
  \/ \E w \in Workers : CycleHead(w)
  \/ \E w \in Workers : CycleOuter(w)
  \/ \E w \in Workers : CycleInner(w)
  \/ \E w \in Workers : CycleCount(w)
  \/ Interrupt

SpecCycle == InitCycle /\ [][NextCycle]_vars

(***************************************************************************)
(* The program from the moment of a once-mode removal.  The run is         *)
(* --once --threads 1 A B and no record file; the worker, in its first     *)
(* reseed cycle, derived an address that starts with A, and the main loop  *)
(* has just accepted the match and removed A.  B is still sought, so       *)
(* keep_alive is true; the file handler has not yet run.  The event budget *)
(* MaxEvents counts from this moment.                                      *)
(***************************************************************************)
FirstMatch == AddressMatch(<<"A">>, Account(<<"A", "B", "A">>), <<"Start">>)

InitAfterRemoval ==
  /\ num_threads = 1
  /\ find_only_once = TRUE
  /\ placement = StartOnly
  /\ vanities = << <<"A">>, <<"B">> >>
  /\ file = AbsentFile
  /\ keep_alive = TRUE
  /\ worker_pc = [w \in Workers |-> "loop"]
  /\ events = 0
  /\ rx_worker_msg = <<>>
  /\ main_pc = "head"
  /\ vanity_targets = RemoveAt(vanities, Position(vanities, FirstMatch.target))
  /\ total_count = 0
  /\ match_count = 1
  /\ search_rate = 0
  /\ rates = [w \in Workers |-> 0]
  /\ rx_printer_msg = << <<"MatchCount", 1>> >>
  /\ printer_pc = "head"
  /\ shown = [search_rate |-> 0, total_count |-> 0, match_count |-> 0]
  /\ rx_address_match = << FirstMatch >>
  /\ file_pc = "load"
  /\ matches = <<>>
  /\ file_at_start = file
  /\ forwarded = << FirstMatch >>
  /\ acc_string = <<>>
  /\ seed = <<>>
  /\ index0 = 0
  /\ index1 = 0
  /\ outer = 0
  /\ inner = 0
  /\ checked = 0
  /\ passed = {}

SpecAfterRemoval == InitAfterRemoval /\ [][Next]_vars

(***************************************************************************)
(* What the claims speak of.                                               *)
(***************************************************************************)
\* the records of an earlier run that FileLoad reads (none when it creates the file)
Loaded ==
  IF FromReader(file_at_start)[1] = "Ok" THEN FromReader(file_at_start)[2] ELSE <<>>

\* how many forwarded records name target t
ForwardedFor(t) == Cardinality({ i \in 1 .. Len(forwarded) : forwarded[i].target = t })

WorkersExited == \A w \in Workers : worker_pc[w] = "done"

\* every thread main joins has returned or panicked
AllJoined ==
  /\ WorkersExited
  /\ main_pc \in {"done", "panicked"}
  /\ printer_pc = "done"
  /\ file_pc \in {"done", "panic_parse", "panic_write"}

\* the step is the main loop taking a match event off the worker channel
TakesMatch ==
  /\ main_pc = "recv"
  /\ rx_worker_msg # <<>>
  /\ Head(rx_worker_msg)[1] = "AddressMatch"
  /\ rx_worker_msg' = Tail(rx_worker_msg)

(***************************************************************************)
(* C1.  In once-mode at most one match event is accepted for a target: at  *)
(* most one record naming it is forwarded to the file handler.             *)
(* Violated by a target list that names a pattern twice.                   *)
(***************************************************************************)
C1_OnceAcceptsTargetOnce ==
  find_only_once => \A t \in Patterns : ForwardedFor(t) <= 1

(***************************************************************************)
(* C2.  In once-mode there is no state between main-loop steps in which    *)
(* the target list has been emptied by accepted matches and keep_alive is  *)
(* still true.                                                             *)
(***************************************************************************)
C2_EmptiedTargetsClearFlag ==
  (find_only_once /\ vanities # <<>> /\ vanity_targets = <<>>) => ~keep_alive

C2_Witness ==
  /\ find_only_once
  /\ Len(vanities) = 2
  /\ vanity_targets = <<>>
  /\ match_count = 2
  /\ main_pc = "head"
  /\ ~keep_alive

(***************************************************************************)
(* C3.  keep_alive starts true and no step of any thread or handler turns  *)
(* it from false to true.                                                  *)
(***************************************************************************)
C3_FlagOnlyFalls == (keep_alive = TRUE) /\ [][keep_alive' => keep_alive]_vars

\* the flag is false while targets remain, and the main loop has accepted a
\* once-mode match and removed its target
C3_Witness ==
  /\ ~keep_alive
  /\ find_only_once
  /\ vanity_targets # <<>>
  /\ Len(vanity_targets) < Len(vanities)
  /\ main_pc = "head"

(***************************************************************************)
(* C4.  Once keep_alive is false every joined thread eventually exits.  If *)
(* that holds, no state with the flag false is stuck with a thread still   *)
(* alive: either every thread has exited or some thread can take a step.   *)
(* Violated: the main loop blocks in recv() on a channel that main's own   *)
(* sender keeps open, and the file handler waits for the main loop.        *)
(***************************************************************************)
C4_ShutdownCompletes == ~keep_alive => (AllJoined \/ ENABLED Next)

(***************************************************************************)
(* C5.  When the main loop has returned, every worker has exited and the   *)
(* worker channel holds no unprocessed event.                              *)
(***************************************************************************)
C5_MainLoopExitsDrained ==
  main_pc = "done" => (WorkersExited /\ rx_worker_msg = <<>>)

(***************************************************************************)
(* C6.  Outside once-mode every match event the main loop takes adds one   *)
(* to match_count, queues exactly that record for the file handler and     *)
(* leaves the target list unchanged.                                       *)
(***************************************************************************)
C6_EveryMatchCountedAndForwarded ==
  [][(TakesMatch /\ ~find_only_once) =>
       /\ match_count' = match_count + 1
       /\ rx_address_match' = Append(rx_address_match, Head(rx_worker_msg)[2])
       /\ vanity_targets' = vanity_targets]_vars

(***************************************************************************)
(* C7.  Persistence round trip: while the file handler runs, its list      *)
(* followed by the records still queued is the loaded list followed by     *)
(* the forwarded records in order, and reading the file back gives exactly *)
(* the handler's list.                                                     *)
(***************************************************************************)
C7_PersistenceRoundTrip ==
  file_pc \in {"recv", "done"} =>
    /\ matches \o rx_address_match = Loaded \o forwarded
    /\ FromReader(file) = <<"Ok", matches>>

\* a rewrite has added two accepted records, one of them with an offset, to
\* a loaded one
C7_Witness ==
  /\ file_pc = "recv"
  /\ Len(Loaded) = 1
  /\ Len(forwarded) >= 2
  /\ \E i \in 1 .. Len(forwarded) : forwarded[i].placement[1] = "Anywhere"
  /\ rx_address_match = <<>>
  /\ matches = Loaded \o forwarded
  /\ file = JsonFile(ToJson(matches))

(***************************************************************************)
(* C8.  A write failure during a rewrite does not end the file handler.    *)
(***************************************************************************)
C8_WriteFailureSurvived == file_pc # "panic_write"

(***************************************************************************)
(* C9.  When the existing record file does not parse, keep_alive is set    *)
(* false.                                                                  *)
(***************************************************************************)
C9_LoadFailureStopsRun == file_pc = "panic_parse" => ~keep_alive

(***************************************************************************)
(* C10.  No thread is ended abnormally by a channel whose peer has exited. *)
(* Only the main loop sends with .expect, so only it can panic on one.     *)
(***************************************************************************)
C10_ClosedChannelIsNormal == main_pc # "panicked"

(***************************************************************************)
(* What the matcher claims speak of: prefix, suffix and occurrence said    *)
(* character by character, and the events on the worker channel.           *)
(***************************************************************************)
IsPrefix(t, c) ==
  /\ Len(t) <= Len(c)
  /\ \A k \in 1 .. Len(t) : c[k] = t[k]

IsSuffix(t, c) ==
  /\ Len(t) <= Len(c)
  /\ \A k \in 1 .. Len(t) : c[Len(c) - Len(t) + k] = t[k]

\* t occurs in c at the 0-based offset i
OccursAt(t, c, i) ==
  /\ i + Len(t) <= Len(c)
  /\ \A k \in 1 .. Len(t) : c[i + k] = t[k]

\* the places in the worker channel of the match events for target t whose
\* placement is of the kind
SentFor(t, kind) ==
  { i \in 1 .. Len(rx_worker_msg) :
      /\ rx_worker_msg[i][1] = "AddressMatch"
      /\ rx_worker_msg[i][2].target = t
      /\ rx_worker_msg[i][2].placement[1] = kind }

\* how many entries of the target list are t
Entries(t) == Cardinality({ n \in 1 .. Len(vanities) : vanities[n] = t })

(***************************************************************************)
(* C11.  For a candidate c and every entry t of the target list, find_vanity*)
(* sends a Start event for t exactly when placement.start is set and t is  *)
(* a prefix of c, an End event exactly when placement.end is set and t is  *)
(* a suffix of c, and, with only placement.anywhere set, an Anywhere event *)
(* exactly when t occurs in c, carrying the lowest offset of t in c.  A    *)
(* placement whose flag is not set gets no event.                          *)
(***************************************************************************)
C11_MatcherEmitsPerFlag ==
  acc_string # <<>> =>
    \A n \in 1 .. Len(vanities) :
      LET t == vanities[n]
          c == acc_string
      IN  /\ Cardinality(SentFor(t, "Start")) =
               IF placement.start /\ IsPrefix(t, c) THEN Entries(t) ELSE 0
          /\ Cardinality(SentFor(t, "End")) =
               IF placement.end /\ IsSuffix(t, c) THEN Entries(t) ELSE 0
          /\ (~placement.start /\ ~placement.end) =>
               IF \E i \in 0 .. Len(c) : OccursAt(t, c, i)
                 THEN /\ Cardinality(SentFor(t, "Anywhere")) = Entries(t)
                      /\ \A e \in SentFor(t, "Anywhere") :
                           LET index == rx_worker_msg[e][2].placement[2]
                           IN  /\ OccursAt(t, c, index)
                               /\ \A j \in 0 .. (index - 1) : ~OccursAt(t, c, j)
                 ELSE SentFor(t, "Anywhere") = {}
          /\ ~placement.anywhere => SentFor(t, "Anywhere") = {}

\* only anywhere is set, and the pattern occurs twice, neither time at the start
C11_Witness ==
  /\ placement = [start |-> FALSE, anywhere |-> TRUE, end |-> FALSE]
  /\ vanities = << <<"A">> >>
  /\ acc_string = <<"B", "A", "A">>
  /\ Len(rx_worker_msg) = 1
  /\ rx_worker_msg[1][2].placement = <<"Anywhere", 1>>

(***************************************************************************)
(* C12.  For a candidate and an entry t of the target list: with both      *)
(* flags set a Start event depends on the prefix alone and an End event on *)
(* the suffix alone; an Anywhere event for t is sent only when neither a   *)
(* Start nor an End event for t was, and at most once; and when the        *)
(* candidate both starts and ends with t under all three flags the events  *)
(* for t are exactly a Start and an End.                                   *)
(***************************************************************************)
C12_AnywhereExcludesStartEnd ==
  acc_string # <<>> =>
    \A n \in 1 .. Len(vanities) :
      LET t == vanities[n]
          c == acc_string
      IN  /\ (placement.start /\ placement.end) =>
               /\ SentFor(t, "Start") # {} <=> IsPrefix(t, c)
               /\ SentFor(t, "End") # {} <=> IsSuffix(t, c)
          /\ SentFor(t, "Anywhere") # {} =>
               (SentFor(t, "Start") = {} /\ SentFor(t, "End") = {})
          /\ Cardinality(SentFor(t, "Anywhere")) <= Entries(t)
          /\ (placement = Everywhere /\ IsPrefix(t, c) /\ IsSuffix(t, c)) =>
               /\ Cardinality(SentFor(t, "Start")) = Entries(t)
               /\ Cardinality(SentFor(t, "End")) = Entries(t)
               /\ SentFor(t, "Anywhere") = {}

\* all three flags, and the candidate starts and ends with the pattern
C12_Witness ==
  /\ placement = Everywhere
  /\ vanities = << <<"A">> >>
  /\ acc_string = <<"A", "B", "A">>
  /\ Len(rx_worker_msg) = 2
  /\ rx_worker_msg[1][2].placement = <<"Start">>
  /\ rx_worker_msg[2][2].placement = <<"End">>

\* the count events the main loop has processed
CountsProcessed == total_count \div (COUNT_PER_LOOP * COUNT_PER_LOOP)

(***************************************************************************)
(* C13.  From a smoothed rate of 0 and with a single worker, after 200     *)
(* count events whose instantaneous rate is 1000 each, the smoothed rate   *)
(* is within 1e-3 of 1000 (100 hundred-thousandths).                       *)
(* Violated: the filter leaves 1000 * 0.95^200, about 0.035.               *)
(***************************************************************************)
C13_SmoothedWithinThousandth ==
  (CountsProcessed = 200 /\ rates = [w \in Workers |-> InstRate(10)]) =>
    /\ search_rate >= InstRate(10) - 100
    /\ search_rate <= InstRate(10) + 100

(***************************************************************************)
(* C13, amended.  After those 200 count events the smoothed rate is below  *)
(* 1000 by between 0.03 and 0.04: within 0.04 of 1000, not within 1e-3.    *)
(***************************************************************************)
C13_SmoothedShortOfRate ==
  (CountsProcessed = 200 /\ rates = [w \in Workers |-> InstRate(10)]) =>
    /\ search_rate >= InstRate(10) - 4000
    /\ search_rate <= InstRate(10) - 3000

\* the main loop has taken the 200th count event of the single worker
C13_Witness ==
  /\ num_threads = 1
  /\ CountsProcessed = 200
  /\ rates[0] = InstRate(10)
  /\ search_rate > 0
  /\ main_pc = "head"

\* the reseed cycles the single worker had ended when it sent the event at
\* place i of the worker channel: every cycle ends with one count event
CyclesEndedBefore(i) ==
  CountsProcessed + Cardinality({ j \in 1 .. (i - 1) : rx_worker_msg[j][1] = "Count" })

(***************************************************************************)
(* C14.  A worker reads the active target list afresh once in a reseed     *)
(* cycle, so once the main loop has removed target t the worker sends      *)
(* match events for t at most until the end of the cycle after the one it  *)
(* was in: from the removal on, no match event for t is sent after the     *)
(* worker has ended two cycles.                                            *)
(* Violated: a worker keeps the list it was spawned with.                  *)
(***************************************************************************)
C14_StaleByOneCycle ==
  \A i \in 1 .. Len(rx_worker_msg) :
    ( /\ rx_worker_msg[i][1] = "AddressMatch"
      /\ rx_worker_msg[i][2].target = FirstMatch.target )
      => CyclesEndedBefore(i) < 2

\* the worker is inside a reseed cycle
InCycle(pc) == pc \in {"outer", "inner"}

\* some step of the worker in the seed loops is possible
CycleStepEnabled(w) ==
  ENABLED (CycleHead(w) \/ CycleOuter(w) \/ CycleInner(w) \/ CycleCount(w))

(***************************************************************************)
(* C15.  A worker is not preempted inside a reseed cycle, whatever the     *)
(* flag is: it leaves the cycle only after all COUNT_PER_LOOP *            *)
(* COUNT_PER_LOOP candidate checks, by sending the cycle's count event;    *)
(* every check still sends the match events it finds.  With the flag false *)
(* a worker at the head of its loop starts no further cycle but returns,   *)
(* it never leaves "done", and until it is done it can always take a step. *)
(***************************************************************************)
C15_CycleRunsToItsEnd ==
  /\ [](\A w \in Workers :
          (~keep_alive /\ worker_pc[w] # "done") => CycleStepEnabled(w))
  /\ [][\A w \in Workers :
          /\ (InCycle(worker_pc[w]) /\ ~InCycle(worker_pc'[w])) =>
               /\ checked = COUNT_PER_LOOP * COUNT_PER_LOOP
               /\ worker_pc'[w] = "head"
               /\ \E d \in Durations :
                    rx_worker_msg' = Append(rx_worker_msg, <<"Count", w, d>>)
          /\ (InCycle(worker_pc[w]) /\ checked' = checked + 1) =>
               rx_worker_msg' =
                 rx_worker_msg \o FindVanity(vanities, FromSeed(seed'), placement)
          /\ (~keep_alive /\ worker_pc[w] = "head" /\ worker_pc'[w] # "head") =>
               worker_pc'[w] = "done"
          /\ worker_pc[w] = "done" => worker_pc'[w] = "done"]_vars

\* the flag is false and the worker has returned, after a whole cycle in
\* which it sent a match event and then the count event
C15_Witness ==
  /\ ~keep_alive
  /\ worker_pc[0] = "done"
  /\ Len(rx_worker_msg) = 2
  /\ rx_worker_msg[1][1] = "AddressMatch"
  /\ rx_worker_msg[2][1] = "Count"

(***************************************************************************)
(* C18.  The seeds a worker hands to Account::from_seed within one reseed  *)
(* cycle are pairwise distinct, whatever the first seed and the two        *)
(* indexes are, equal indexes included: as many different seeds have been  *)
(* passed as checks have been made (through the first MaxPassed checks).   *)
(* Violated when index0 = index1: the one byte is counted up 101 times     *)
(* in an outer pass and comes round, modulo 256, in the third pass.        *)
(***************************************************************************)
C18_SeedsPairwiseDistinct ==
  checked <= MaxPassed => Cardinality(passed) = checked

\* the file handler thread has ended, by returning or by a panic
FileHandlerExited == file_pc \in {"done", "panic_parse", "panic_write"}

\* the records a reader of the record file gets
FileRecords == IF FromReader(file)[1] = "Ok" THEN FromReader(file)[2] ELSE <<>>

(***************************************************************************)
(* C16.  Every match the main loop forwarded is written: when the file     *)
(* handler has exited it has taken every record off its channel, its list  *)
(* holds each forwarded record once, after the loaded ones and in order,   *)
(* the file holds that list, and the main loop can forward no more.        *)
(* Violated by the panics of C8 and C9, which end the file handler early.  *)
(***************************************************************************)
C16_ForwardedAllWritten ==
  FileHandlerExited =>
    /\ rx_address_match = <<>>
    /\ matches = Loaded \o forwarded
    /\ FileRecords = matches
    /\ ~MainLoopAlive

\* the step is the main loop taking a count event off the worker channel
TakesCount ==
  /\ main_pc = "recv"
  /\ rx_worker_msg # <<>>
  /\ Head(rx_worker_msg)[1] = "Count"
  /\ rx_worker_msg' = Tail(rx_worker_msg)

(***************************************************************************)
(* C17.  total_count starts at 0, grows by exactly COUNT_PER_LOOP *        *)
(* COUNT_PER_LOOP in every step in which the main loop takes a count event *)
(* and is left as it is by every other step, of any thread: so it is       *)
(* always COUNT_PER_LOOP * COUNT_PER_LOOP times the count events taken.    *)
(***************************************************************************)
C17_TotalCountsCountEvents ==
  /\ total_count = 0
  /\ [][IF TakesCount
          THEN total_count' = total_count + COUNT_PER_LOOP * COUNT_PER_LOOP
          ELSE total_count' = total_count]_vars

\* the count events of two workers have been taken, and a match event too
C17_Witness ==
  /\ num_threads = 2
  /\ total_count = 2 * COUNT_PER_LOOP * COUNT_PER_LOOP
  /\ rates[0] > 0
  /\ rates[1] > 0
  /\ match_count = 1

\* the targets a list names
ActiveSet(targets) == { targets[i] : i \in 1 .. Len(targets) }

(***************************************************************************)
(* C19.  The main loop's target list never grows.  A step changes it only  *)
(* in once-mode and only when the main loop takes and accepts a match      *)
(* event; the list then loses one entry, which names the matched target,   *)
(* and keeps every other entry in place, so that the set of active targets *)
(* loses at most the matched target and gains none.  Outside once-mode no  *)
(* step changes it.                                                        *)
(***************************************************************************)
C19_TargetsOnlyShrink ==
  [][vanity_targets' # vanity_targets =>
       /\ find_only_once
       /\ TakesMatch
       /\ match_count' = match_count + 1
       /\ ActiveSet(vanity_targets') \subseteq ActiveSet(vanity_targets)
       /\ ActiveSet(vanity_targets) \ ActiveSet(vanity_targets')
            \subseteq { Head(rx_worker_msg)[2].target }
       /\ \E i \in 1 .. Len(vanity_targets) :
            /\ vanity_targets[i] = Head(rx_worker_msg)[2].target
            /\ vanity_targets' =
                 SubSeq(vanity_targets, 1, i - 1)
                   \o SubSeq(vanity_targets, i + 1, Len(vanity_targets))]_vars

\* once-mode with two targets: the match for the first has been accepted and
\* the second is still sought
C19_Witness ==
  /\ find_only_once
  /\ vanities = << <<"A">>, <<"B">> >>
  /\ vanity_targets = << <<"B">> >>
  /\ match_count = 1
  /\ main_pc = "head"

\* the session state: what the main loop keeps about the run
SessionState == << match_count, total_count, rates, search_rate, vanity_targets >>

\* the step is one of a worker, of the file handler or of the info printer
WorkerStep == \E w \in Workers : WorkerHead(w) \/ WorkerCheck(w) \/ WorkerCount(w)

FileHandlerStep == FileLoad \/ FileRecv \/ FileExit

PrinterStep == PrinterLoop \/ PrinterExit

\* the step is the main loop taking an event off the worker channel
TakesEvent ==
  /\ main_pc = "recv"
  /\ rx_worker_msg # <<>>
  /\ rx_worker_msg' = Tail(rx_worker_msg)

(***************************************************************************)
(* C20.  Every step of a worker, of the file handler and of the info       *)
(* printer leaves match_count, total_count, rates, search_rate and the     *)
(* target list as they are; a step that changes one of them is the main    *)
(* loop taking an event; and a worker's step changes nothing but its own   *)
(* position and the worker channel, to which it only appends.              *)
(***************************************************************************)
C20_OnlyMainLoopWrites ==
  [][/\ (WorkerStep \/ FileHandlerStep \/ PrinterStep) => SessionState' = SessionState
     /\ SessionState' # SessionState => TakesEvent
     /\ WorkerStep =>
          /\ Len(rx_worker_msg') >= Len(rx_worker_msg)
          /\ SubSeq(rx_worker_msg', 1, Len(rx_worker_msg)) = rx_worker_msg
          /\ UNCHANGED << keep_alive, mainVars, rx_printer_msg, printerVars,
                          rx_address_match, fileVars >>]_vars

\* workers, the file handler and the info printer have all taken steps, and
\* the main loop has processed a match event and a count event
C20_Witness ==
  /\ match_count = 1
  /\ total_count = COUNT_PER_LOOP * COUNT_PER_LOOP
  /\ Len(matches) > Len(Loaded)
  /\ shown.total_count = total_count
  /\ \E w \in Workers : worker_pc[w] = "head"


\* some candidate of the inner loop matches a target, so that find_vanity has
\* an event to send
SomeCandidateMatches ==
  \E a \in Addresses : FindVanity(vanities, Account(a), placement) # <<>>

\* C21: a worker inside its cycle is never held up by the main loop: whatever
\* the number of events queued on the worker channel and whether the main loop
\* is receiving, busy, exited or panicked, the send of its Count event is
\* enabled, and so is the send of a match's events when a candidate matches
\* (within the bound on worker steps)
C21_SendNeverBlocks ==
  \A w \in Workers :
    worker_pc[w] = "loop" =>
      /\ ENABLED WorkerCount(w)
      /\ (events < MaxEvents /\ SomeCandidateMatches) => ENABLED WorkerCheck(w)

\* a worker is inside its cycle, two events or more wait in the channel and
\* the main loop has ended
C21_Witness ==
  /\ ~MainLoopAlive
  /\ Len(rx_worker_msg) >= 2
  /\ \E w \in Workers : worker_pc[w] = "loop"

\* the targets given on the command line or in the pattern file are pairwise
\* distinct
DistinctTargets ==
  \A i, j \in 1 .. Len(vanities) : i # j => vanities[i] # vanities[j]

\* the once branch has removed the last target and stored false in the flag
Exhausted ==
  /\ find_only_once
  /\ vanities # <<>>
  /\ vanity_targets = <<>>
  /\ ~keep_alive

\* every match counted is a record sent to the file handler
C22_CountIsForwarded == match_count = Len(forwarded)

\* once-mode, distinct targets: the matches counted and the targets still
\* active add up to the targets given
C22_CountPlusActive ==
  (find_only_once /\ DistinctTargets) =>
    match_count + Len(vanity_targets) = Len(vanities)

\* once-mode, distinct targets: the count stays within the number of targets
\* given and reaches it exactly when exhaustion has stored false in the flag
C22_CountReachesInitial ==
  (find_only_once /\ DistinctTargets) =>
    /\ match_count <= Len(vanities)
    /\ (match_count = Len(vanities)) <=> Exhausted

\* C22: conservation in the main loop: in every reachable state match_count
\* is the number of records forwarded to the file handler, and in once-mode
\* with pairwise distinct targets match_count plus the number of active
\* targets is the number of targets given, so match_count never exceeds that
\* number and equals it exactly when exhaustion has stored false in the flag
C22_Conservation ==
  /\ C22_CountIsForwarded
  /\ C22_CountPlusActive
  /\ C22_CountReachesInitial

\* the same while the main loop has not panicked and some target was given
C22_ConservationUnlessPanicked ==
  (main_pc # "panicked" /\ vanities # <<>>) => C22_Conservation

====
